---- MODULE Spec2Model ----
(***************************************************************************)
(* MatchMyCV front end: the wizard page (app/page.tsx), its step           *)
(* components and the API client (lib/api), as a state machine.            *)
(*                                                                         *)
(* A handler of the page is an async function: every action below is one   *)
(* run-to-completion segment of a handler (from a click, a response or a   *)
(* timer up to the next await), followed by the render React performs and  *)
(* the save-session effect of that render.                                 *)
(* The backend is not part of the front end sources: its behaviour is      *)
(* modelled from the specification (definitions named Srv...).             *)
(***************************************************************************)
EXTENDS Integers, Sequences, FiniteSets, TLC

\* ---------------------------------------------------------------- bounds
NCallers == 3
MaxSessions == 2
MaxAnalyses == 1
MaxQuestions == 2
MaxDeleteClicks == 1

\* ------------------------------------------------------ program constants
NoSession == 0
MaxAttempts == 3
BackoffUnitMs == 600
MinJobDescriptionLength == 50
InitialStep == 0
JobDetailsStep == 1
AnalysisStep == 2
InterviewStepNo == 3
DownloadStep == 4

\* Messages of lib/api (the defaultError of each call) and of the page.
CreateDefaultError == "Unable to start session. Please refresh."
UploadDefaultError == "Failed to upload CV. Please try a different file."
AnalyzeDefaultError == "Analysis failed. Please try again."
QuestionsDefaultError == "Failed to load questions."
AnswerDefaultError == "Failed to save answer. Please try again."
GenerateDefaultError == "CV generation failed. Please try again."
GenerateTimeoutError == "Taking longer than expected. Please try again."
DeleteDefaultError == "Failed to delete data."
SessionExpiredError == "Session expired. Please re-upload your CV."
NoError == "null"

\* What the browser throws: fetch rejecting, res.json() on a body that is
\* not JSON.
FetchFailedError == "TypeError: Failed to fetch"
JsonSyntaxError == "SyntaxError: Unexpected token"

\* Details the backend sends with a non-OK status.
SessionNotFoundDetail == "Session not found"
QuestionNotFoundDetail == "Question not found"
AlreadyAnsweredDetail == "Question already answered"
NoCvDetail == "Please upload a CV first"
NoAnalysisDetail == "Please run the analysis first"
TooShortDetail == "Job description must be at least 50 characters"
ServerErrorDetail == "Service unavailable"

\* ------------------------------------------------------------- processes
\* A process is one invocation slot of an async handler.
Callers == {<<"caller", i>> : i \in 1..NCallers}
UploadP == <<"upload", 1>>
AnalyzeP == <<"analyze", 1>>
AnswerP == <<"answer", 1>>
GenerateP == <<"generate", 1>>
RestoreP == <<"restore", 1>>
DeleteProcs == {<<"delete", i>> : i \in 1..MaxDeleteClicks}
Handlers == {UploadP, AnalyzeP, AnswerP, GenerateP, RestoreP} \cup DeleteProcs
\* The mounted UploadStep component: its useState cells live with the
\* handlers' private state.
UploadStepC == <<"uploadStep", 1>>
Procs == Handlers \cup Callers \cup {UploadStepC}
NoProc == <<"none", 0>>
Kind(p) == p[1]

VARIABLES
  sessionId,              \* useState: the session id, NoSession for null
  currentStep,            \* useState: 0..4
  isLoading,              \* useState
  error,                  \* useState: a message, NoError for null
  gapAnalysis,            \* useState: <<session, analysis>>, NoGap for null
  questions,              \* useState: the question list
  currentQuestionIndex,   \* useState
  isGenerated,            \* useState
  comparison,             \* useState: the session it was computed for, or 0
  sessionInitPromiseRef,  \* useRef: the process whose bootstrap is in flight
  localStorage,           \* the "matchmycv_session" item
  proc,                   \* each handler invocation: where it is suspended
  server,                 \* backend: session id -> stored session
  nextSession,            \* backend: the next id create-session hands out
  nextAnalysis            \* backend: the next analysis

pageVars == <<sessionId, currentStep, isLoading, error, gapAnalysis, questions,
              currentQuestionIndex, isGenerated, comparison>>
flowVars == <<gapAnalysis, questions, currentQuestionIndex, isGenerated, comparison>>
serverVars == <<server, nextSession, nextAnalysis>>
vars == <<sessionId, currentStep, isLoading, error, gapAnalysis, questions,
          currentQuestionIndex, isGenerated, comparison, sessionInitPromiseRef,
          localStorage, proc, server, nextSession, nextAnalysis>>

NoGap == <<0, 0>>
NoSaved == [sessionId |-> NoSession, step |-> 0]
SessionIds == 1..MaxSessions

\* The stored session of the specification's data model.
BlankSession ==
  [live |-> FALSE, deleted |-> FALSE, cv |-> FALSE, gap |-> 0, questions |-> <<>>,
   generated |-> FALSE]

\* No file: null for selectedFile.
NoFile == [type |-> "none", size |-> 0]

\* No response has been produced yet for the request in flight.
NoReply == [type |-> "none", detail |-> ""]

\* One invocation's private state: the locals of the handler and a record of
\* what it has done so far (creates: the create-session calls it issued,
\* recoveries: those issued after session-not-found, ops: the requests of its
\* own operation, errs: the errors its bootstrap attempts met, in order),
\* and the response on its way back (reply, with the count and the session
\* data it carries). For UploadStep: file is selectedFile and fileError its
\* error line; for handleUpload: file is its argument.
Idle ==
  [pc |-> "idle", sid |-> NoSession, attempt |-> 0, lastErr |-> NoError,
   delay |-> 0, creates |-> 0, recoveries |-> 0, ops |-> 0, errs |-> <<>>,
   notFound |-> FALSE, lsRead |-> FALSE, joined |-> NoProc, res |-> "none",
   n |-> 0, text |-> "", last |-> FALSE, skip |-> FALSE, step |-> 0,
   reply |-> NoReply, count |-> 0, data |-> BlankSession,
   file |-> NoFile, fileError |-> NoError]

\* ------------------------------------------------------------ HTTP layer
\* A response as the client sees it.
OkResponse == [type |-> "ok", detail |-> ""]
ErrorResponse(d) == [type |-> "error", detail |-> d]
NotJsonResponse == [type |-> "notjson", detail |-> ""]
NetworkFailure == [type |-> "network", detail |-> ""]

\* The failure any request can meet on the way, whatever the backend does:
\* the connection fails or times out.
TransportFailures == {NetworkFailure}

\* handleResponse(res, defaultError): what the awaiting caller gets.
HandleResponse(res, defaultError) ==
  IF res.type = "ok" THEN [ok |-> TRUE, message |-> ""]
  ELSE IF res.type = "notjson" THEN [ok |-> FALSE, message |-> JsonSyntaxError]
  ELSE [ok |-> FALSE,
        message |-> IF res.detail # "" THEN res.detail ELSE defaultError]

\* await fetch(...) followed by handleResponse.
ApiCall(res, defaultError) ==
  IF res.type = "network" THEN [ok |-> FALSE, message |-> FetchFailedError]
  ELSE HandleResponse(res, defaultError)

\* The test of the recovery without toLowerCase(): the detail the backend
\* sends is capitalised and never matches.
IsSessionNotFoundCaseSensitive(message) == message = "session not found"

\* A recovery that takes any failure for a lost session.
IsSessionNotFoundAnyError(message) == TRUE

\* String(e?.message || "").toLowerCase().includes("session not found")
IsSessionNotFound(message) == message = SessionNotFoundDetail


\* --------------------------------------------------------------- backend
SrvLive(sid) == sid \in SessionIds /\ server[sid].live

\* POST /session/create: a fresh, empty session.
SrvCreate(srv, sid) == [srv EXCEPT ![sid] = [BlankSession EXCEPT !.live = TRUE]]

\* What create-session can answer: a new id while the backend has one to
\* give, a failure at any time (5xx on store failure).
CreateReplies ==
  TransportFailures \cup {ErrorResponse("")}
    \cup (IF nextSession <= MaxSessions THEN {OkResponse} ELSE {})

\* ------------------------------------------------------- render and save
\* A page without the save-session effect: local storage keeps what the
\* handlers wrote.
SaveEffectMissing(ls, sid, step) == ls

\* The "save session state on step change" effect of the render that
\* follows an action: ls is local storage as the handler left it.
SaveEffect(ls, sid, step) ==
  IF sid # NoSession /\ (sid # sessionId \/ step # currentStep)
  THEN [sessionId |-> sid, step |-> step]
  ELSE ls

\* ---------------------------------------------------------- ensureSession
SavedId == localStorage.sessionId

\* ensureSession without the in-flight check of line 67.
EnsureSessionNoDedup(closureSid) ==
  IF closureSid # NoSession THEN "held"
  ELSE IF SavedId # NoSession THEN "restored"
  ELSE "create"

\* ensureSession looking into local storage before the id in memory.
EnsureSessionStorageFirst(closureSid) ==
  IF SavedId # NoSession THEN "restored"
  ELSE IF closureSid # NoSession THEN "held"
  ELSE IF sessionInitPromiseRef # NoProc THEN "join"
  ELSE "create"

\* The branch one call of ensureSession takes, given the session id of the
\* closure it was created in.
EnsureSessionOutcome(closureSid) ==
  IF closureSid # NoSession THEN "held"
  ELSE IF sessionInitPromiseRef # NoProc THEN "join"
  ELSE IF SavedId # NoSession THEN "restored"
  ELSE "create"

\* The caller of ensureSession goes on with the id it got.
Continue(q, c, sid) ==
  CASE Kind(q) = "upload" ->
         [c EXCEPT !.pc = "awaitUpload", !.sid = sid, !.ops = @ + 1]
    [] Kind(q) = "analyze" ->
         [c EXCEPT !.pc = "awaitAnalyze", !.sid = sid, !.ops = @ + 1]
    [] OTHER -> [c EXCEPT !.pc = "done", !.res = "ok", !.sid = sid]

\* The caller of ensureSession gets the rejection: a page handler ends in
\* its catch and finally blocks.
Reject(q, c, message) ==
  IF Kind(q) = "caller"
  THEN [c EXCEPT !.pc = "done", !.res = "err", !.lastErr = message]
  ELSE Idle

\* A bootstrap promise that settles for its creator alone.
AwaitingCreatorOnly(p) == {p}

\* Who is suspended on the bootstrap promise that p created.
Awaiting(p) == {q \in Procs : q = p \/ proc[q].pc = "awaitInit"}

\* The loop bound off by one: attempt <= 3.
LoopContinuesOffByOne(attempt) == attempt <= MaxAttempts

\* for (attempt = 0; attempt < 3; attempt++)
LoopContinues(attempt) == attempt < MaxAttempts

\* The state of process q, entered with locals c, after it called
\* ensureSession.
AfterEnsureCall(q, c, closureSid) ==
  LET o == EnsureSessionOutcome(closureSid) IN
  CASE o = "held" -> Continue(q, c, closureSid)
    [] o = "join" ->
         [c EXCEPT !.pc = "awaitInit", !.joined = sessionInitPromiseRef]
    [] o = "restored" -> Continue(q, [c EXCEPT !.lsRead = TRUE], SavedId)
    [] OTHER ->
         [c EXCEPT !.pc = "awaitCreate", !.attempt = 0, !.creates = @ + 1,
                   !.lsRead = TRUE, !.joined = q]

\* ensureSession called from process q: its effect on the page.
EnsureSessionCall(q, c, closureSid) ==
  LET o == EnsureSessionOutcome(closureSid) IN
  /\ proc' = [proc EXCEPT ![q] = AfterEnsureCall(q, c, closureSid)]
  /\ sessionId' = IF o = "restored" THEN SavedId ELSE sessionId
  /\ sessionInitPromiseRef' = IF o = "create" THEN q ELSE sessionInitPromiseRef
  /\ localStorage' = IF o = "restored"
                     THEN SaveEffect(localStorage, SavedId, currentStep)
                     ELSE localStorage

\* An ensureSession that leaves the settled promise in the slot.
SlotKeptAfterSettle(p) == p

\* finally { sessionInitPromiseRef.current = null }: the slot once the
\* attempt of p has settled.
SlotAfterSettle(p) == NoProc

\* The create-session call of a bootstrap attempt answers.
BootCreateResponse(p) ==
  /\ proc[p].pc = "awaitCreate"
  /\ \E res \in CreateReplies :
       LET r == ApiCall(res, CreateDefaultError)
           new == nextSession
       IN IF r.ok
          THEN /\ sessionId' = new
               /\ localStorage' =
                    SaveEffect([sessionId |-> new, step |-> 0], new, currentStep)
               /\ sessionInitPromiseRef' = SlotAfterSettle(p)
               /\ proc' = [q \in Procs |->
                             IF q \in Awaiting(p) THEN Continue(q, proc[q], new)
                             ELSE proc[q]]
               /\ server' = SrvCreate(server, new)
               /\ nextSession' = new + 1
               /\ UNCHANGED <<currentStep, isLoading, error, flowVars, nextAnalysis>>
          ELSE /\ proc' = [proc EXCEPT ![p].pc = "backoff",
                                       ![p].lastErr = r.message,
                                       ![p].errs = Append(@, r.message),
                                       ![p].delay = BackoffUnitMs * (proc[p].attempt + 1)]
               /\ UNCHANGED <<pageVars, sessionInitPromiseRef, localStorage, serverVars>>

\* The backoff timer fires: the next attempt, or throw lastErr.
BackoffElapsed(p) ==
  /\ proc[p].pc = "backoff"
  /\ LET k == proc[p].attempt + 1 IN
     IF LoopContinues(k)
     THEN /\ proc' = [proc EXCEPT ![p].pc = "awaitCreate", ![p].attempt = k,
                                  ![p].creates = @ + 1]
          /\ UNCHANGED <<pageVars, sessionInitPromiseRef, localStorage, serverVars>>
     ELSE /\ proc' = [q \in Procs |->
                        IF q \in Awaiting(p)
                        THEN Reject(q, [proc[q] EXCEPT !.attempt = k], proc[p].lastErr)
                        ELSE proc[q]]
          /\ sessionInitPromiseRef' = SlotAfterSettle(p)
          /\ IF \E q \in Awaiting(p) : Kind(q) # "caller"
             THEN error' = proc[p].lastErr /\ isLoading' = FALSE
             ELSE UNCHANGED <<error, isLoading>>
          /\ UNCHANGED <<sessionId, currentStep, flowVars, localStorage, serverVars>>

\* ----------------------------------- ensureSession under concurrent calls
\* N callers share the ensureSession of the current render.
CallerCall(c) ==
  /\ proc[c].pc = "idle"
  /\ EnsureSessionCall(c, proc[c], sessionId)
  /\ UNCHANGED <<currentStep, isLoading, error, flowVars, serverVars>>

InitServer ==
  /\ server = [s \in SessionIds |-> BlankSession]
  /\ nextSession = 1
  /\ nextAnalysis = 1

InitPage ==
  /\ sessionId = NoSession
  /\ currentStep = InitialStep
  /\ isLoading = FALSE
  /\ error = NoError
  /\ gapAnalysis = NoGap
  /\ questions = <<>>
  /\ currentQuestionIndex = 0
  /\ isGenerated = FALSE
  /\ comparison = 0
  /\ sessionInitPromiseRef = NoProc
  /\ proc = [p \in Procs |-> Idle]

\* The bootstrap controller alone: nothing in memory, local storage empty or
\* holding the id of an earlier visit.
InitBoot ==
  /\ InitPage
  /\ \/ /\ localStorage = NoSaved
        /\ InitServer
     \/ /\ localStorage = [sessionId |-> 1, step |-> 0]
        /\ server = [s \in SessionIds |-> IF s = 1 THEN [BlankSession EXCEPT !.live = TRUE] ELSE BlankSession]
        /\ nextSession = 2
        /\ nextAnalysis = 1

NextBoot ==
  \/ \E c \in Callers : CallerCall(c)
  \/ \E c \in Callers : BootCreateResponse(c)
  \/ \E c \in Callers : BackoffElapsed(c)

SpecBoot == InitBoot /\ [][NextBoot]_vars


\* ------------------------------------------------------- backend replies
\* The questions of analysis a, all pending.
SrvQuestions(a, k) ==
  [i \in 1..k |-> [id |-> i, question |-> a, answered |-> FALSE, answer |-> ""]]

\* The number of terminal (answered or skipped) questions.
Terminal(qs) == Cardinality({i \in 1..Len(qs) : qs[i].answered})

SessionReply(sid) ==
  IF SrvLive(sid) THEN OkResponse ELSE ErrorResponse(SessionNotFoundDetail)

\* POST /cv/upload
SrvUpload(srv, sid) == [srv EXCEPT ![sid].cv = TRUE]

\* POST /analyze
SrvAnalyzeReply(sid, n) ==
  IF ~SrvLive(sid) THEN ErrorResponse(SessionNotFoundDetail)
  ELSE IF n < MinJobDescriptionLength THEN ErrorResponse(TooShortDetail)
  ELSE IF ~server[sid].cv THEN ErrorResponse(NoCvDetail)
  ELSE IF nextAnalysis > MaxAnalyses THEN ErrorResponse(ServerErrorDetail)
  ELSE OkResponse

SrvAnalyze(srv, sid, a, k) ==
  [srv EXCEPT ![sid].gap = a, ![sid].questions = SrvQuestions(a, k)]

\* POST /interview/answer
SrvAnswerReply(sid, qid) ==
  IF ~SrvLive(sid) THEN ErrorResponse(SessionNotFoundDetail)
  ELSE IF qid \notin 1..Len(server[sid].questions)
       THEN ErrorResponse(QuestionNotFoundDetail)
  ELSE IF server[sid].questions[qid].answered
       THEN ErrorResponse(AlreadyAnsweredDetail)
  ELSE OkResponse

SrvAnswer(srv, sid, qid, text) ==
  [srv EXCEPT ![sid].questions[qid] = [@ EXCEPT !.answered = TRUE, !.answer = text]]

\* POST /cv/generate
SrvGenerateReply(sid) ==
  IF ~SrvLive(sid) THEN ErrorResponse(SessionNotFoundDetail)
  ELSE IF server[sid].gap = 0 THEN ErrorResponse(NoAnalysisDetail)
  ELSE OkResponse

SrvGenerate(srv, sid) == [srv EXCEPT ![sid].generated = TRUE]

\* DELETE /session/{id}: every field wiped; an unknown id is a success.
SrvDelete(srv, sid) == [srv EXCEPT ![sid] = [BlankSession EXCEPT !.deleted = TRUE]]

\* The backend loses a session (a restart, an expiry).
SrvLoseSession(s) ==
  /\ SrvLive(s)
  /\ s = sessionId \/ s = localStorage.sessionId \/ \E p \in Procs : proc[p].sid = s
  /\ server' = [server EXCEPT ![s] = BlankSession]
  /\ UNCHANGED <<pageVars, sessionInitPromiseRef, localStorage, proc,
                 nextSession, nextAnalysis>>

\* ------------------------------------------------------------- page load
Min(a, b) == IF a < b THEN a ELSE b

\* The page is (re)loaded: fresh React state, then initSession, which reads
\* local storage and starts the background restore.
Reload ==
  LET saved == localStorage.sessionId # NoSession IN
  /\ sessionId' = localStorage.sessionId
  /\ currentStep' = IF saved THEN localStorage.step ELSE InitialStep
  /\ isLoading' = FALSE
  /\ error' = NoError
  /\ gapAnalysis' = NoGap
  /\ questions' = <<>>
  /\ currentQuestionIndex' = 0
  /\ isGenerated' = FALSE
  /\ comparison' = 0
  /\ sessionInitPromiseRef' = NoProc
  /\ proc' = [p \in Procs |->
                IF p = RestoreP /\ saved
                THEN [Idle EXCEPT !.pc = "awaitRestore",
                                  !.sid = localStorage.sessionId,
                                  !.step = localStorage.step]
                ELSE Idle]
  /\ UNCHANGED <<localStorage, serverVars>>

\* A restore that trusts the saved step whatever the session holds.
RestoredStepUnclamped(desiredStep, data) == desiredStep

\* The step the restore settles on, given the saved step and the data.
RestoredStep(desiredStep, data) ==
  IF desiredStep >= AnalysisStep /\ data.gap = 0 THEN JobDetailsStep
  ELSE IF desiredStep >= InterviewStepNo /\ Len(data.questions) = 0 THEN AnalysisStep
  ELSE desiredStep

\* The response that has arrived for the request of c, if any.
Arrived(c) == IF c.reply = NoReply THEN {} ELSE {c.reply}

\* GET /session/{id}/data: the backend answers the background restore with
\* the session as it is now.
SrvHandleRestore ==
  LET c == proc[RestoreP]
      res == SessionReply(c.sid)
  IN /\ c.pc = "awaitRestore"
     /\ c.reply = NoReply
     /\ proc' = [proc EXCEPT ![RestoreP].reply = res,
                             ![RestoreP].data =
                                IF res.type = "ok" THEN server[c.sid] ELSE BlankSession]
     /\ UNCHANGED <<pageVars, sessionInitPromiseRef, localStorage, serverVars>>

\* The background restore of initSession gets its answer (or times out).
RestoreResponse ==
  LET c == proc[RestoreP] IN
  /\ c.pc = "awaitRestore"
  /\ \E res \in TransportFailures \cup Arrived(c) :
       IF res.type = "ok"
       THEN LET data == c.data
                step2 == RestoredStep(c.step, data)
            IN /\ gapAnalysis' = IF data.gap # 0 THEN <<c.sid, data.gap>> ELSE gapAnalysis
               /\ questions' = data.questions
               /\ currentQuestionIndex' = Terminal(data.questions)
               /\ comparison' = IF data.generated THEN c.sid ELSE comparison
               /\ isGenerated' = IF data.generated THEN TRUE ELSE isGenerated
               /\ currentStep' = step2
               /\ localStorage' = SaveEffect(localStorage, sessionId, step2)
       ELSE LET step2 == Min(c.step, JobDetailsStep) IN
            /\ currentStep' = step2
            /\ localStorage' = SaveEffect(localStorage, sessionId, step2)
            /\ UNCHANGED flowVars
  /\ proc' = [proc EXCEPT ![RestoreP] = Idle]
  /\ UNCHANGED <<sessionId, isLoading, error, sessionInitPromiseRef, serverVars>>

\* ---------------------------------------------------------- handleUpload
\* UploadStep's Continue button: onUpload(selectedFile).
HandleUpload ==
  /\ currentStep = InitialStep
  /\ ~isLoading
  /\ proc[UploadP].pc = "idle"
  /\ isLoading' = TRUE
  /\ error' = NoError
  /\ EnsureSessionCall(UploadP, Idle, sessionId)
  /\ UNCHANGED <<currentStep, flowVars, serverVars>>

\* uploadCV answers: the first call (line 167) or the retry (line 174).
UploadResponse ==
  LET c == proc[UploadP] IN
  /\ c.pc \in {"awaitUpload", "awaitUpload2"}
  /\ \E res \in TransportFailures \cup {SessionReply(c.sid)} :
       LET r == ApiCall(res, UploadDefaultError) IN
       IF r.ok
       THEN /\ server' = SrvUpload(server, c.sid)
            /\ currentStep' = JobDetailsStep
            /\ isLoading' = FALSE
            /\ localStorage' = SaveEffect(localStorage, sessionId, JobDetailsStep)
            /\ proc' = [proc EXCEPT ![UploadP] = Idle]
            /\ UNCHANGED <<sessionId, error>>
       ELSE IF c.pc = "awaitUpload" /\ IsSessionNotFound(r.message)
       THEN /\ proc' = [proc EXCEPT ![UploadP].pc = "awaitRecCreate",
                                    ![UploadP].creates = @ + 1,
                                    ![UploadP].recoveries = @ + 1,
                                    ![UploadP].notFound =
                                       (r.message = SessionNotFoundDetail)]
            /\ UNCHANGED <<server, sessionId, currentStep, isLoading, error, localStorage>>
       ELSE /\ error' = r.message
            /\ isLoading' = FALSE
            /\ proc' = [proc EXCEPT ![UploadP] = Idle]
            /\ UNCHANGED <<server, sessionId, currentStep, localStorage>>
  /\ UNCHANGED <<flowVars, sessionInitPromiseRef, nextSession, nextAnalysis>>

\* The createSession of handleUpload's recovery answers.
UploadRecoveryResponse ==
  LET c == proc[UploadP] IN
  /\ c.pc = "awaitRecCreate"
  /\ \E res \in CreateReplies :
       LET r == ApiCall(res, CreateDefaultError)
           new == nextSession
       IN IF r.ok
          THEN /\ server' = SrvCreate(server, new)
               /\ nextSession' = new + 1
               /\ sessionId' = new
               /\ localStorage' =
                    SaveEffect([sessionId |-> new, step |-> 0], new, currentStep)
               /\ proc' = [proc EXCEPT ![UploadP].pc = "awaitUpload2",
                                       ![UploadP].sid = new,
                                       ![UploadP].ops = @ + 1]
               /\ UNCHANGED <<isLoading, error>>
          ELSE /\ error' = r.message
               /\ isLoading' = FALSE
               /\ proc' = [proc EXCEPT ![UploadP] = Idle]
               /\ UNCHANGED <<server, nextSession, sessionId, localStorage>>
  /\ UNCHANGED <<currentStep, flowVars, sessionInitPromiseRef, nextAnalysis>>

\* --------------------------------------------------------- handleAnalyze
\* The comparison written with > : exactly 50 characters are refused.
IsValidStrictlyLonger(charCount) == charCount > MinJobDescriptionLength

\* JobDescriptionStep: const isValid = charCount >= 50
IsValid(charCount) == charCount >= MinJobDescriptionLength

\* The lengths of the job descriptions a user submits.
JobDescriptionLengths ==
  {0, MinJobDescriptionLength - 1, MinJobDescriptionLength}

HandleAnalyze(n) ==
  /\ isLoading' = TRUE
  /\ error' = NoError
  /\ EnsureSessionCall(AnalyzeP, [Idle EXCEPT !.n = n], sessionId)
  /\ UNCHANGED <<currentStep, flowVars, serverVars>>

\* JobDescriptionStep.handleSubmit with a description of n characters.
HandleSubmit(n) ==
  /\ currentStep = JobDetailsStep
  /\ proc[AnalyzeP].pc = "idle"
  /\ IF IsValid(n) /\ ~isLoading THEN HandleAnalyze(n) ELSE UNCHANGED vars

\* analyzeCV answers.
AnalyzeResponse ==
  LET c == proc[AnalyzeP] IN
  /\ c.pc = "awaitAnalyze"
  /\ \E res \in TransportFailures \cup {SrvAnalyzeReply(c.sid, c.n)},
        k \in {MaxQuestions} :
       LET r == ApiCall(res, AnalyzeDefaultError) IN
       IF r.ok
       THEN /\ server' = SrvAnalyze(server, c.sid, nextAnalysis, k)
            /\ nextAnalysis' = nextAnalysis + 1
            /\ gapAnalysis' = <<c.sid, nextAnalysis>>
            /\ proc' = [proc EXCEPT ![AnalyzeP].pc = "awaitQuestions"]
            /\ UNCHANGED <<isLoading, error>>
       ELSE IF IsSessionNotFound(r.message)
       THEN /\ proc' = [proc EXCEPT ![AnalyzeP].pc = "awaitRecCreate",
                                    ![AnalyzeP].creates = @ + 1,
                                    ![AnalyzeP].recoveries = @ + 1,
                                    ![AnalyzeP].notFound =
                                       (r.message = SessionNotFoundDetail)]
            /\ UNCHANGED <<server, nextAnalysis, gapAnalysis, isLoading, error>>
       ELSE /\ error' = r.message
            /\ isLoading' = FALSE
            /\ proc' = [proc EXCEPT ![AnalyzeP] = Idle]
            /\ UNCHANGED <<server, nextAnalysis, gapAnalysis>>
  /\ UNCHANGED <<sessionId, currentStep, questions, currentQuestionIndex,
                 isGenerated, comparison, sessionInitPromiseRef, localStorage,
                 nextSession>>

\* A recovery that replays the analysis on the replacement session.
AnalyzeRetriesAfterRecovery(c, new) ==
  [c EXCEPT !.pc = "awaitAnalyze", !.sid = new, !.ops = @ + 1]

\* handleAnalyze once its replacement session is there: it throws
\* "Session expired. Please re-upload your CV." and ends.
AnalyzeAfterRecovery(c, new) == Idle

\* The createSession of handleAnalyze's recovery answers.
AnalyzeRecoveryResponse ==
  LET c == proc[AnalyzeP] IN
  /\ c.pc = "awaitRecCreate"
  /\ \E res \in CreateReplies :
       LET r == ApiCall(res, CreateDefaultError)
           new == nextSession
       IN IF r.ok
          THEN /\ server' = SrvCreate(server, new)
               /\ nextSession' = new + 1
               /\ sessionId' = new
               /\ localStorage' =
                    SaveEffect([sessionId |-> new, step |-> 0], new, currentStep)
               /\ error' = SessionExpiredError
               /\ proc' = [proc EXCEPT ![AnalyzeP] = AnalyzeAfterRecovery(c, new)]
          ELSE /\ error' = r.message
               /\ proc' = [proc EXCEPT ![AnalyzeP] = Idle]
               /\ UNCHANGED <<server, nextSession, sessionId, localStorage>>
  /\ isLoading' = FALSE
  /\ UNCHANGED <<currentStep, flowVars, sessionInitPromiseRef, nextAnalysis>>

\* getQuestions answers.
QuestionsResponse ==
  LET c == proc[AnalyzeP] IN
  /\ c.pc = "awaitQuestions"
  /\ \E res \in TransportFailures \cup {SessionReply(c.sid)} :
       LET r == ApiCall(res, QuestionsDefaultError) IN
       IF r.ok
       THEN /\ questions' = server[c.sid].questions
            /\ currentStep' = AnalysisStep
            /\ localStorage' = SaveEffect(localStorage, sessionId, AnalysisStep)
            /\ UNCHANGED error
       ELSE /\ error' = r.message
            /\ UNCHANGED <<questions, currentStep, localStorage>>
  /\ isLoading' = FALSE
  /\ proc' = [proc EXCEPT ![AnalyzeP] = Idle]
  /\ UNCHANGED <<sessionId, gapAnalysis, currentQuestionIndex, isGenerated,
                 comparison, sessionInitPromiseRef, serverVars>>

\* ------------------------------------------------------------- interview
\* GapAnalysisStep (rendered at step 2 when gapAnalysis is set): Start.
HandleStartInterview ==
  /\ currentStep = AnalysisStep
  /\ gapAnalysis # NoGap
  /\ currentQuestionIndex' = 0
  /\ currentStep' = InterviewStepNo
  /\ localStorage' = SaveEffect(localStorage, sessionId, InterviewStepNo)
  /\ UNCHANGED <<sessionId, isLoading, error, gapAnalysis, questions, isGenerated,
                 comparison, sessionInitPromiseRef, proc, serverVars>>

\* InterviewStep: const currentQuestion = questions[currentIndex]
HasCurrentQuestion == currentQuestionIndex < Len(questions)
CurrentQuestion == questions[currentQuestionIndex + 1]
IsLastQuestion == currentQuestionIndex >= Len(questions) - 1

\* handleInterviewComplete
HandleInterviewComplete ==
  /\ currentStep' = DownloadStep
  /\ localStorage' = SaveEffect(localStorage, sessionId, DownloadStep)

\* InterviewStep's completed view: the Generate CV button.
CompletedViewContinue ==
  /\ currentStep = InterviewStepNo
  /\ ~HasCurrentQuestion
  /\ HandleInterviewComplete
  /\ UNCHANGED <<sessionId, isLoading, error, flowVars, sessionInitPromiseRef,
                 proc, serverVars>>

\* What the answer box can hold when Submit is pressed: nothing, white
\* space only, or an answer.
TypedTexts == {"", " ", "a"}

\* String.prototype.trim over the typed texts.
Trim(text) == IF text = " " THEN "" ELSE text

\* A submit path that tests the raw text.
TextIsSendableUntrimmed(text) == text # ""

\* handleTextSubmit: if (textAnswer.trim() && currentQuestion)
TextIsSendable(text) == Trim(text) # ""

\* handleSubmitText / handleSkip up to the await of submitAnswer, entered
\* from InterviewStep's handleTextSubmit / handleSkip.
SubmitAnswerCall(text, skip) ==
  /\ currentStep = InterviewStepNo
  /\ HasCurrentQuestion
  /\ ~isLoading
  /\ proc[AnswerP].pc = "idle"
  /\ IF sessionId = NoSession
     THEN /\ IF IsLastQuestion
             THEN HandleInterviewComplete
             ELSE UNCHANGED <<currentStep, localStorage>>
          /\ UNCHANGED <<isLoading, proc>>
     ELSE /\ isLoading' = TRUE
          /\ proc' = [proc EXCEPT ![AnswerP] =
                        [Idle EXCEPT !.pc = "awaitAnswer", !.sid = sessionId,
                                     !.n = CurrentQuestion.id, !.text = text,
                                     !.skip = skip, !.last = IsLastQuestion,
                                     !.ops = 1]]
          /\ UNCHANGED <<currentStep, localStorage>>
  /\ UNCHANGED <<sessionId, error, flowVars, sessionInitPromiseRef, serverVars>>

HandleTextSubmit ==
  \E text \in TypedTexts : TextIsSendable(text) /\ SubmitAnswerCall(text, FALSE)

HandleSkip == SubmitAnswerCall("", TRUE)

\* A handler that marks the question before it knows the outcome.
QuestionsMarkedAnyway(qs, qid, text) ==
  [i \in 1..Len(qs) |->
     IF qs[i].id = qid THEN [qs[i] EXCEPT !.answered = TRUE, !.answer = text]
     ELSE qs[i]]

\* setQuestions(prev => prev.map(q => q.id === questionId ? {...} : q))
MarkAnswered(qs, qid, text) ==
  [i \in 1..Len(qs) |->
     IF qs[i].id = qid THEN [qs[i] EXCEPT !.answered = TRUE, !.answer = text]
     ELSE qs[i]]

\* The questions after a failed submitAnswer (the catch block leaves them).
QuestionsAfterFailure(qs, qid, text) == qs

\* A handler that resets the spinner in its try block only.
LoadingResetOnSuccessOnly(ok) == ~ok

\* isLoading after handleSubmitText / handleSkip: the finally block resets
\* it whatever the outcome.
LoadingAfterAnswer(ok) == FALSE

\* POST /interview/answer: the backend handles the request and answers
\* with the number of terminal questions.
SrvHandleAnswer ==
  LET c == proc[AnswerP]
      res == SrvAnswerReply(c.sid, c.n)
      srv2 == IF res.type = "ok" THEN SrvAnswer(server, c.sid, c.n, c.text)
              ELSE server
  IN /\ c.pc = "awaitAnswer"
     /\ c.reply = NoReply
     /\ server' = srv2
     /\ proc' = [proc EXCEPT ![AnswerP].reply = res,
                             ![AnswerP].count =
                                IF res.type = "ok" THEN Terminal(srv2[c.sid].questions)
                                ELSE 0]
     /\ UNCHANGED <<pageVars, sessionInitPromiseRef, localStorage, nextSession,
                    nextAnalysis>>

\* submitAnswer answers (or the request fails on the way, before or after
\* the backend handled it); then InterviewStep goes on after its await.
AnswerResponse ==
  LET c == proc[AnswerP] IN
  /\ c.pc = "awaitAnswer"
  /\ \E res \in TransportFailures \cup Arrived(c) :
       LET r == ApiCall(res, AnswerDefaultError)
           step2 == IF c.last THEN DownloadStep ELSE currentStep
       IN /\ IF r.ok
             THEN /\ currentQuestionIndex' =
                       IF c.skip THEN currentQuestionIndex + 1 ELSE c.count
                  /\ questions' = MarkAnswered(questions, c.n, c.text)
                  /\ UNCHANGED error
             ELSE /\ error' = r.message
                  /\ questions' = QuestionsAfterFailure(questions, c.n, c.text)
                  /\ UNCHANGED currentQuestionIndex
          /\ currentStep' = step2
          /\ localStorage' = SaveEffect(localStorage, sessionId, step2)
          /\ isLoading' = LoadingAfterAnswer(r.ok)
  /\ proc' = [proc EXCEPT ![AnswerP] = Idle]
  /\ UNCHANGED <<sessionId, gapAnalysis, isGenerated, comparison,
                 sessionInitPromiseRef, serverVars>>

\* -------------------------------------------------------- handleGenerate
\* GenerateStep (rendered at step 4 when sessionId is set), before
\* generation: the Generate button.
HandleGenerate ==
  /\ currentStep = DownloadStep
  /\ sessionId # NoSession
  /\ ~isGenerated
  /\ ~isLoading
  /\ proc[GenerateP].pc = "idle"
  /\ isLoading' = TRUE
  /\ error' = NoError
  /\ proc' = [proc EXCEPT ![GenerateP] =
                [Idle EXCEPT !.pc = "awaitGenerate", !.sid = sessionId, !.ops = 1]]
  /\ UNCHANGED <<sessionId, currentStep, flowVars, sessionInitPromiseRef,
                 localStorage, serverVars>>

\* The 2 minute timer of generateCV aborts the fetch.
AbortedFetch == [type |-> "abort", detail |-> ""]

\* generateCV: its own timeout, then handleResponse.
GenerateCall(res) ==
  IF res.type = "abort" THEN [ok |-> FALSE, message |-> GenerateTimeoutError]
  ELSE ApiCall(res, GenerateDefaultError)

\* POST /cv/generate: the backend generates and answers.
SrvHandleGenerate ==
  LET c == proc[GenerateP]
      res == SrvGenerateReply(c.sid)
  IN /\ c.pc = "awaitGenerate"
     /\ c.reply = NoReply
     /\ server' = IF res.type = "ok" THEN SrvGenerate(server, c.sid) ELSE server
     /\ proc' = [proc EXCEPT ![GenerateP].reply = res]
     /\ UNCHANGED <<pageVars, sessionInitPromiseRef, localStorage, nextSession,
                    nextAnalysis>>

\* A handler that reports the CV as generated whatever the outcome.
GeneratedOptimistically(generated) == TRUE

\* isGenerated after a failed generateCV (the catch block leaves it).
GeneratedAfterFailure(generated) == generated

\* handleGenerate after its await, generateCV having ended with res.
GenerateReception(res) ==
  LET c == proc[GenerateP]
      r == GenerateCall(res)
  IN
  /\ c.pc = "awaitGenerate"
  /\ IF r.ok
     THEN /\ isGenerated' = TRUE
          /\ comparison' = c.sid
          /\ UNCHANGED error
     ELSE /\ error' = r.message
          /\ isGenerated' = GeneratedAfterFailure(isGenerated)
          /\ UNCHANGED comparison
  /\ isLoading' = FALSE
  /\ proc' = [proc EXCEPT ![GenerateP] = Idle]
  /\ UNCHANGED <<sessionId, currentStep, gapAnalysis, questions,
                 currentQuestionIndex, sessionInitPromiseRef, localStorage,
                 serverVars>>

\* generateCV answers, fails on the way or is aborted by its timer.
GenerateResponse ==
  \E res \in TransportFailures \cup {AbortedFetch} \cup Arrived(proc[GenerateP]) :
    GenerateReception(res)

\* setTimeout(() => controller.abort(), 120000) fires.
GenerateTimerFires == GenerateReception(AbortedFetch)

\* ---------------------------------------------------------- handleDelete
\* GenerateStep after generation: "Delete my data now" (never disabled).
HandleDelete(d) ==
  /\ currentStep = DownloadStep
  /\ sessionId # NoSession
  /\ isGenerated
  /\ proc[d].pc = "idle"
  /\ proc' = [proc EXCEPT ![d] = [Idle EXCEPT !.pc = "awaitDelete", !.sid = sessionId]]
  /\ UNCHANGED <<pageVars, sessionInitPromiseRef, localStorage, serverVars>>

\* deleteSession answers.
DeleteResponse(d) ==
  LET c == proc[d] IN
  /\ c.pc = "awaitDelete"
  /\ \E res \in TransportFailures \cup {OkResponse} :
       LET r == ApiCall(res, DeleteDefaultError) IN
       IF r.ok
       THEN /\ server' = SrvDelete(server, c.sid)
            /\ localStorage' = NoSaved
            /\ sessionId' = NoSession
            /\ currentStep' = InitialStep
            /\ gapAnalysis' = NoGap
            /\ questions' = <<>>
            /\ isGenerated' = FALSE
            /\ comparison' = 0
            /\ proc' = [proc EXCEPT ![d].pc = "awaitDelCreate", ![d].creates = @ + 1]
            /\ UNCHANGED error
       ELSE /\ error' = r.message
            /\ proc' = [proc EXCEPT ![d] = Idle]
            /\ UNCHANGED <<server, localStorage, sessionId, currentStep, gapAnalysis,
                           questions, isGenerated, comparison>>
  /\ UNCHANGED <<isLoading, currentQuestionIndex, sessionInitPromiseRef,
                 nextSession, nextAnalysis>>

\* The createSession that follows the delete answers.
DeleteCreateResponse(d) ==
  LET c == proc[d] IN
  /\ c.pc = "awaitDelCreate"
  /\ \E res \in CreateReplies :
       LET r == ApiCall(res, CreateDefaultError)
           new == nextSession
       IN IF r.ok
          THEN /\ server' = SrvCreate(server, new)
               /\ nextSession' = new + 1
               /\ sessionId' = new
               /\ localStorage' =
                    SaveEffect([sessionId |-> new, step |-> 0], new, currentStep)
               /\ UNCHANGED error
          ELSE /\ error' = r.message
               /\ UNCHANGED <<server, nextSession, sessionId, localStorage>>
  /\ proc' = [proc EXCEPT ![d] = Idle]
  /\ UNCHANGED <<currentStep, isLoading, flowVars, sessionInitPromiseRef, nextAnalysis>>

\* ------------------------------------------------------------- the page
\* A first visit: nothing saved, nothing on the backend.
Init ==
  /\ InitPage
  /\ localStorage = NoSaved
  /\ InitServer

Next ==
  \/ Reload
  \/ SrvHandleRestore
  \/ RestoreResponse
  \/ HandleUpload
  \/ UploadResponse
  \/ UploadRecoveryResponse
  \/ \E n \in JobDescriptionLengths : HandleSubmit(n)
  \/ AnalyzeResponse
  \/ AnalyzeRecoveryResponse
  \/ QuestionsResponse
  \/ HandleStartInterview
  \/ CompletedViewContinue
  \/ HandleTextSubmit
  \/ HandleSkip
  \/ SrvHandleAnswer
  \/ AnswerResponse
  \/ HandleGenerate
  \/ SrvHandleGenerate
  \/ GenerateResponse
  \/ \E d \in DeleteProcs : HandleDelete(d)
  \/ \E d \in DeleteProcs : DeleteResponse(d)
  \/ \E d \in DeleteProcs : DeleteCreateResponse(d)
  \/ \E p \in {UploadP, AnalyzeP} : BootCreateResponse(p)
  \/ \E p \in {UploadP, AnalyzeP} : BackoffElapsed(p)
  \/ \E s \in SessionIds : SrvLoseSession(s)

Spec == Init /\ [][Next]_vars

\* The page under a user who keeps using every control it offers and keeps
\* reloading, every request being answered in the end: what such a user
\* never reaches is not reachable through the page.
SpecUser ==
  /\ Spec
  /\ WF_vars(Reload)
  /\ WF_vars(SrvHandleRestore)
  /\ WF_vars(RestoreResponse)
  /\ WF_vars(HandleUpload)
  /\ WF_vars(UploadResponse)
  /\ WF_vars(UploadRecoveryResponse)
  /\ WF_vars(\E n \in JobDescriptionLengths : HandleSubmit(n))
  /\ WF_vars(AnalyzeResponse)
  /\ WF_vars(AnalyzeRecoveryResponse)
  /\ WF_vars(QuestionsResponse)
  /\ WF_vars(HandleStartInterview)
  /\ WF_vars(CompletedViewContinue)
  /\ WF_vars(HandleTextSubmit)
  /\ WF_vars(HandleSkip)
  /\ WF_vars(SrvHandleAnswer)
  /\ WF_vars(AnswerResponse)
  /\ WF_vars(HandleGenerate)
  /\ WF_vars(SrvHandleGenerate)
  /\ WF_vars(GenerateResponse)
  /\ WF_vars(\E d \in DeleteProcs : HandleDelete(d))
  /\ WF_vars(\E d \in DeleteProcs : DeleteResponse(d))
  /\ WF_vars(\E d \in DeleteProcs : DeleteCreateResponse(d))
  /\ WF_vars(\E p \in {UploadP, AnalyzeP} : BootCreateResponse(p))
  /\ WF_vars(\E p \in {UploadP, AnalyzeP} : BackoffElapsed(p))

\* The page with its timers running: the 2 minute timer of generateCV
\* fires unless the call has ended. Nothing makes a response arrive.
SpecTimers == Spec /\ WF_vars(GenerateTimerFires)

\* ================================================= UploadStep (SpecUpload)
\* The upload step on its own: files are dropped or picked, the selection is
\* cleared, Continue hands the selected file to onUpload.
MaxFileSize == 10 * 1024 * 1024

PdfType == "application/pdf"
FileTypes == {PdfType, "image/png", ""}
FileSizes == {0, 1, MaxFileSize - 1, MaxFileSize, MaxFileSize + 1}
Files == [type : FileTypes, size : FileSizes]

NotPdfError == "Please upload a PDF file"
TooLargeError == "File size must be under 10MB"

\* A validation that looks at the type only.
ValidateFileTypeOnly(file) ==
  IF file.type # PdfType THEN NotPdfError ELSE NoError

\* validateFile: the error it sets, NoError when it returns true.
ValidateFile(file) ==
  IF file.type # PdfType THEN NotPdfError
  ELSE IF file.size > MaxFileSize THEN TooLargeError
  ELSE NoError

\* handleDrop / handleFileSelect
SelectFile(file) ==
  LET e == ValidateFile(file) IN
  /\ currentStep = InitialStep
  /\ proc' = [proc EXCEPT ![UploadStepC].fileError = e,
                          ![UploadStepC].file = IF e = NoError THEN file ELSE @]
  /\ UNCHANGED <<pageVars, sessionInitPromiseRef, localStorage, serverVars>>

\* "Choose different file"
ChooseDifferentFile ==
  /\ currentStep = InitialStep
  /\ proc[UploadStepC].file # NoFile
  /\ proc' = [proc EXCEPT ![UploadStepC].fileError = NoError,
                          ![UploadStepC].file = NoFile]
  /\ UNCHANGED <<pageVars, sessionInitPromiseRef, localStorage, serverVars>>

\* The Continue button: onUpload(selectedFile); handleUpload starts.
UploadStepContinue ==
  /\ currentStep = InitialStep
  /\ proc[UploadStepC].file # NoFile
  /\ ~isLoading
  /\ isLoading' = TRUE
  /\ error' = NoError
  /\ proc' = [proc EXCEPT ![UploadP] =
                [Idle EXCEPT !.pc = "uploading", !.file = proc[UploadStepC].file]]
  /\ UNCHANGED <<sessionId, currentStep, flowVars, sessionInitPromiseRef,
                 localStorage, serverVars>>

\* handleUpload ends without leaving the step (its catch and finally).
UploadFails ==
  /\ proc[UploadP].pc = "uploading"
  /\ isLoading' = FALSE
  /\ error' = UploadDefaultError
  /\ proc' = [proc EXCEPT ![UploadP].pc = "idle"]
  /\ UNCHANGED <<sessionId, currentStep, flowVars, sessionInitPromiseRef,
                 localStorage, serverVars>>

NextUpload ==
  \/ \E file \in Files : SelectFile(file)
  \/ ChooseDifferentFile
  \/ UploadStepContinue
  \/ UploadFails

SpecUpload == Init /\ [][NextUpload]_vars

\* ================================================ handleResponse (SpecHttp)
\* handleResponse on its own: four api calls, each with an arbitrary
\* response waiting, hand their outcome to the page.
ApiCallers == {UploadP, AnalyzeP, AnswerP, GenerateP}

\* The default message each api function passes to handleResponse.
DefaultErrorOf(p) ==
  CASE p = UploadP -> UploadDefaultError
    [] p = AnalyzeP -> AnalyzeDefaultError
    [] p = AnswerP -> AnswerDefaultError
    [] p = GenerateP -> GenerateDefaultError

\* The details an error body can carry ("" for a body without one).
HttpDetails == {"", SessionNotFoundDetail, ServerErrorDetail}

\* The responses fetch can resolve with.
HttpResponses ==
  {OkResponse, NotJsonResponse} \cup {ErrorResponse(d) : d \in HttpDetails}

\* return handleResponse(res, defaultError), and the caller's catch block
\* showing the message of what was thrown.
HttpResponse(p) ==
  LET r == HandleResponse(proc[p].reply, DefaultErrorOf(p)) IN
  /\ proc[p].pc = "awaitHttp"
  /\ error' = IF r.ok THEN error ELSE r.message
  /\ proc' = [proc EXCEPT ![p] = Idle]
  /\ UNCHANGED <<sessionId, currentStep, isLoading, flowVars,
                 sessionInitPromiseRef, localStorage, serverVars>>

InitHttp ==
  /\ InitServer
  /\ localStorage = NoSaved
  /\ sessionId = NoSession
  /\ currentStep = InitialStep
  /\ isLoading = FALSE
  /\ error = NoError
  /\ gapAnalysis = NoGap
  /\ questions = <<>>
  /\ currentQuestionIndex = 0
  /\ isGenerated = FALSE
  /\ comparison = 0
  /\ sessionInitPromiseRef = NoProc
  /\ \E f \in [ApiCallers -> HttpResponses] :
       proc = [p \in Procs |->
                 IF p \in ApiCallers
                 THEN [Idle EXCEPT !.pc = "awaitHttp", !.reply = f[p]]
                 ELSE Idle]

NextHttp == \E p \in ApiCallers : HttpResponse(p)

SpecHttp == InitHttp /\ [][NextHttp]_vars

\* ===================================================== bootstrap (SpecBoot)
\* The create-session calls the processes of S issued, in total.
RECURSIVE CreateCalls(_)
CreateCalls(S) ==
  IF S = {} THEN 0
  ELSE LET p == CHOOSE q \in S : TRUE IN proc[p].creates + CreateCalls(S \ {p})

\* The callers that went through the bootstrap attempt p started (p itself
\* and those that found it in flight).
Attempt(p) == {c \in Callers : proc[c].joined = p}

\* The callers whose bootstrap attempt is in flight.
InFlightAttempts == {c \in Callers : proc[c].pc \in {"awaitCreate", "backoff"}}

\* C1 as stated: N concurrent callers with nothing in memory and nothing in
\* local storage (all of them went through the same attempt) have issued
\* exactly one create-session call in total once they are done.
C1_ExactlyOneCreateCall ==
  (\E p \in Callers : \A c \in Callers : c \in Attempt(p) /\ proc[c].pc = "done")
    => CreateCalls(Callers) = 1

\* C1 amended: concurrent callers with no cached id share exactly one
\* bootstrap attempt; every create-session call is issued by the caller that
\* started it, one call at a time: one call in total when the first call
\* succeeds, never more than 3 when calls fail.
C1_OneAttemptIssuesAllCalls ==
  /\ Cardinality({c \in Callers : proc[c].pc = "awaitCreate"}) <= 1
  /\ Cardinality(InFlightAttempts) <= 1
  /\ \A p \in Callers :
       /\ \A c \in Attempt(p) \ {p} : proc[c].creates = 0
       /\ CreateCalls(Attempt(p)) <= MaxAttempts
       /\ (p \in Attempt(p) /\ proc[p].pc = "done" /\ proc[p].res = "ok"
             /\ proc[p].errs = <<>>)
            => CreateCalls(Attempt(p)) = 1

\* All callers went through one attempt whose first call succeeded.
C1_Witness ==
  \E p \in Callers :
    /\ Attempt(p) = Callers
    /\ \A c \in Callers : proc[c].pc = "done" /\ proc[c].res = "ok"
    /\ CreateCalls(Callers) = 1

\* C3: while a bootstrap attempt is in flight every other caller awaits that
\* attempt and starts none of its own (it issues no create-session call and
\* at most one attempt is in flight); the callers of one attempt all resolve
\* with the same session id or all reject with the same error.
C3_WaitersShareTheAttempt ==
  /\ Cardinality(InFlightAttempts) <= 1
  /\ \A c \in Callers :
       proc[c].pc = "awaitInit" =>
         /\ sessionInitPromiseRef \in InFlightAttempts
         /\ proc[c].joined = sessionInitPromiseRef
         /\ proc[c].creates = 0
  /\ \A p \in Callers : \A c, d \in Attempt(p) :
       (proc[c].pc = "done" /\ proc[d].pc = "done") =>
         /\ proc[c].res = proc[d].res
         /\ proc[c].res = "ok" => proc[c].sid = proc[d].sid /\ proc[c].sid # NoSession
         /\ proc[c].res = "err" => proc[c].lastErr = proc[d].lastErr /\ proc[c].lastErr # NoError

\* All callers went through one attempt and were rejected.
C3_Witness ==
  \E p \in Callers :
    /\ Attempt(p) = Callers
    /\ \A c \in Callers : proc[c].pc = "done" /\ proc[c].res = "err"

\* C4: a call of ensureSession made while a session id is held returns that
\* id at once: no create-session call, no read of local storage, no
\* in-flight attempt registered, nothing sent to the backend.
C4_HeldIdReturnedImmediately ==
  [][\A c \in Callers :
       (sessionId # NoSession /\ CallerCall(c)) =>
         /\ proc'[c].pc = "done"
         /\ proc'[c].res = "ok"
         /\ proc'[c].sid = sessionId
         /\ proc'[c].creates = 0
         /\ ~proc'[c].lsRead
         /\ proc'[c].joined = NoProc
         /\ sessionInitPromiseRef' = NoProc
         /\ UNCHANGED <<sessionId, localStorage, serverVars>>]_vars

\* A caller that got the held id: it neither read local storage nor went
\* through an attempt.
C4_Witness ==
  \E c \in Callers :
    /\ proc[c].pc = "done"
    /\ proc[c].res = "ok"
    /\ proc[c].joined = NoProc
    /\ ~proc[c].lsRead
    /\ proc[c].sid = sessionId

\* The local-storage branch of ensureSession (C5, which the page itself never
\* enters: initSession has set the id by then): with nothing in memory, no
\* attempt in flight and an id in local storage, the call returns that id,
\* makes it the held id and sends nothing.
EnsureSessionReusesSavedId ==
  [][\A c \in Callers :
       (sessionId = NoSession /\ sessionInitPromiseRef = NoProc
          /\ SavedId # NoSession /\ CallerCall(c)) =>
         /\ proc'[c].pc = "done"
         /\ proc'[c].res = "ok"
         /\ proc'[c].sid = SavedId
         /\ proc'[c].creates = 0
         /\ sessionId' = SavedId
         /\ sessionInitPromiseRef' = NoProc
         /\ UNCHANGED serverVars]_vars

\* C6: one bootstrap attempt with no cached id calls create-session at most
\* 3 times, each call after the failure of the one before, none after a
\* success; after three failures it rejects with the error of the third.
C6_ThreeAttemptsLastError ==
  \A p \in Callers :
    proc[p].joined = p =>
      /\ proc[p].creates <= MaxAttempts
      /\ proc[p].pc = "awaitCreate" =>
           proc[p].creates = Len(proc[p].errs) + 1
      /\ proc[p].pc = "backoff" => proc[p].creates = Len(proc[p].errs)
      /\ (proc[p].pc = "done" /\ proc[p].res = "ok") =>
           proc[p].creates = Len(proc[p].errs) + 1
      /\ (proc[p].pc = "done" /\ proc[p].res = "err") =>
           /\ proc[p].creates = MaxAttempts
           /\ Len(proc[p].errs) = MaxAttempts
           /\ proc[p].lastErr = proc[p].errs[MaxAttempts]

\* An attempt rejected after three failures, the third unlike the first.
C6_Witness ==
  \E p \in Callers :
    /\ proc[p].joined = p
    /\ proc[p].pc = "done"
    /\ proc[p].res = "err"
    /\ proc[p].errs[MaxAttempts] # proc[p].errs[1]

\* =========================================================== the page (Spec)
\* The create-session calls in flight, whichever handler issued them.
CreatesInFlight ==
  {p \in Procs : proc[p].pc \in {"awaitCreate", "awaitRecCreate", "awaitDelCreate"}}

\* C2: in every reachable state of the page at most one create-session call
\* is in flight, whichever handler issued it.
C2_AtMostOneCreateInFlight == Cardinality(CreatesInFlight) <= 1

\* The step gives up a stored session id: the one in memory or the one in
\* local storage.
ReplacesId ==
  \/ sessionId # NoSession /\ sessionId' # sessionId
  \/ localStorage.sessionId # NoSession /\ localStorage'.sessionId # localStorage.sessionId

\* The step is the answer to the create-session call of a recovery whose
\* operation was told "session not found".
AfterNotFound ==
  \E p \in {UploadP, AnalyzeP} :
    /\ proc[p].pc = "awaitRecCreate"
    /\ proc[p].notFound
    /\ proc'[p] # proc[p]

\* The step is an answer handleDelete was waiting for, or the answer to a
\* bootstrap create-session call that was started while no id was held.
ByDeleteOrBootstrap ==
  \/ \E d \in DeleteProcs :
       proc[d].pc \in {"awaitDelete", "awaitDelCreate"} /\ proc'[d] # proc[d]
  \/ \E p \in {UploadP, AnalyzeP} :
       proc[p].pc = "awaitCreate" /\ proc'[p] # proc[p]

\* Page load and what follows it: the saved id becomes the held id at once,
\* nothing is created by the load or by the background restore, and a
\* handler called while an id is held uses that id without creating one.
ReusesSavedId ==
  /\ Reload =>
       /\ sessionId' = localStorage.sessionId
       /\ CreatesInFlight' = {}
       /\ \A p \in Procs : proc'[p].creates = 0
       /\ UNCHANGED <<localStorage, serverVars>>
  /\ (proc[RestoreP].pc = "awaitRestore" /\ proc'[RestoreP] # proc[RestoreP]) =>
       /\ CreatesInFlight' \subseteq CreatesInFlight
       /\ UNCHANGED <<sessionId, nextSession>>
  /\ \A p \in {UploadP, AnalyzeP} :
       (sessionId # NoSession /\ proc[p].pc = "idle" /\ proc'[p].pc # "idle") =>
         /\ proc'[p].sid = sessionId
         /\ proc'[p].creates = 0
         /\ proc'[p].pc \in {"awaitUpload", "awaitAnalyze"}
         /\ UNCHANGED <<sessionId, localStorage, serverVars>>

\* C5 as stated: a session id found in local storage is reused without any
\* request for validation or creation, page load never issues a
\* create-session call, and a stored id is replaced only after a real
\* operation reported session not found.
C5_ReplacedOnlyAfterNotFound ==
  [][ReusesSavedId /\ (ReplacesId => AfterNotFound)]_vars

\* C5 amended: the saved id is reused without any request, page load never
\* creates a session, and a stored id is replaced only when a create-session
\* call answers (the recovery call after a real operation reported session
\* not found, the call handleDelete issues, a bootstrap call started while
\* no id was held) or when handleDelete discards it after the delete.
C5_ReplacedOnlyByRecoveryOrDelete ==
  [][ReusesSavedId /\ (ReplacesId => AfterNotFound \/ ByDeleteOrBootstrap)]_vars

\* After a reload, with the background restore still pending, an analysis
\* runs on the saved id and nothing was created for it.
C5_Witness ==
  /\ proc[RestoreP].pc = "awaitRestore"
  /\ proc[AnalyzeP].pc = "awaitAnalyze"
  /\ proc[AnalyzeP].sid = localStorage.sessionId
  /\ proc[AnalyzeP].creates = 0
  /\ CreatesInFlight = {}

\* The handlers of the workflow operations.
OpHandlers == {UploadP, AnalyzeP, AnswerP, GenerateP}

\* Where a handler waits for the first request of its operation.
FirstOpAwait == {"awaitUpload", "awaitAnalyze", "awaitAnswer", "awaitGenerate"}

\* The operation of p, sent for a session the backend no longer has, does
\* not end p with "Session not found" shown: p goes on to a replacement.
RecoversFromNotFound(p) ==
  ~ /\ proc[p].pc \in FirstOpAwait
    /\ ~SrvLive(proc[p].sid)
    /\ proc'[p].pc = "idle"
    /\ error' = SessionNotFoundDetail

\* Once the replacement session of p's recovery is there, p sends its
\* operation again.
RetriesAfterReplacement(p) ==
  (proc[p].pc = "awaitRecCreate" /\ proc'[p] # proc[p] /\ sessionId' # sessionId) =>
    /\ proc'[p].ops = proc[p].ops + 1
    /\ proc'[p].sid = sessionId'

\* What every invocation keeps to: one replacement at most, one retry at
\* most.
RecoveryCounts ==
  /\ \A p \in OpHandlers : proc[p].recoveries <= 1 /\ proc[p].ops <= 2
  /\ \A p \in OpHandlers :
       proc[p].pc = "awaitRecCreate" => proc[p].recoveries = 1 /\ proc[p].ops = 1

AnalyzeRecoveryEnds ==
  /\ proc[AnalyzeP].pc = "awaitRecCreate"
  /\ proc'[AnalyzeP] # proc[AnalyzeP]
  /\ ~Reload

\* Nothing of the earlier steps is replayed for the replacement session: no
\* upload, no second analysis, the replacement stays empty, and what the
\* page shows of the analysis is left as it was.
NothingReplayed ==
  /\ (proc[AnalyzeP].pc = "awaitAnalyze" /\ proc'[AnalyzeP].pc = "awaitRecCreate") =>
       UNCHANGED <<gapAnalysis, questions, server, currentStep>>
  /\ AnalyzeRecoveryEnds =>
       /\ proc'[AnalyzeP].pc = "idle"
       /\ proc'[UploadP] = proc[UploadP]
       /\ proc[UploadP].pc = "idle"
       /\ UNCHANGED <<gapAnalysis, questions, currentStep, nextAnalysis>>
       /\ sessionId' # sessionId =>
            /\ server'[sessionId'] = [BlankSession EXCEPT !.live = TRUE]
            /\ \A s \in SessionIds \ {sessionId'} : server'[s] = server[s]

\* C8 as stated: when analyze hits session not found, no upload and no
\* second analyze request is sent for the replacement session, the user is
\* told to re-upload, and gapAnalysis and questions are left unchanged.
C8_ToldToReupload ==
  [][NothingReplayed /\ (AnalyzeRecoveryEnds => error' = SessionExpiredError)]_vars

\* C8 amended: nothing is replayed and gapAnalysis and questions are left
\* unchanged; the user is told to re-upload when the replacement session
\* was created, and is shown the error of create-session when it was not.
C8_ToldToReuploadOnceReplaced ==
  [][/\ NothingReplayed
     /\ AnalyzeRecoveryEnds =>
          /\ sessionId' # sessionId => error' = SessionExpiredError
          /\ sessionId' = sessionId =>
               error' \in {CreateDefaultError, FetchFailedError}]_vars

\* The page after such a recovery: a fresh replacement session without a
\* CV, the user told to re-upload, the page still on the job-details step.
C8_Witness ==
  /\ error = SessionExpiredError
  /\ proc[AnalyzeP].pc = "idle"
  /\ sessionId # NoSession
  /\ server[sessionId] = [BlankSession EXCEPT !.live = TRUE]
  /\ currentStep = JobDetailsStep

\* C9: no analyze request is ever sent for a job description shorter than 50
\* characters (the backend never gets to refuse one), and a description of
\* exactly 50 characters submitted on the idle job-details step is sent.
C9_MinimumLength ==
  /\ proc[AnalyzeP].pc # "idle" => proc[AnalyzeP].n >= MinJobDescriptionLength
  /\ error # TooShortDetail
  /\ (currentStep = JobDetailsStep /\ ~isLoading /\ proc[AnalyzeP].pc = "idle") =>
       ENABLED (HandleSubmit(MinJobDescriptionLength) /\ isLoading')

\* The request for a description of exactly 50 characters is in flight.
C9_Witness ==
  /\ proc[AnalyzeP].pc = "awaitAnalyze"
  /\ proc[AnalyzeP].n = MinJobDescriptionLength

\* The question at position i of a list is terminal and the list holds the
\* same question there after the step.
SameTerminalQuestion(before, after, i) ==
  /\ before[i].answered
  /\ i <= Len(after)
  /\ after[i].question = before[i].question

\* submitAnswer is on its way to the backend for a question the backend
\* holds as terminal.
ResubmitInFlight ==
  LET c == proc[AnswerP] IN
  /\ c.pc = "awaitAnswer"
  /\ c.reply = NoReply
  /\ SrvLive(c.sid)
  /\ c.n \in 1..Len(server[c.sid].questions)
  /\ server[c.sid].questions[c.n].answered

\* C10: a second submit or skip for a question that is answered or skipped
\* is rejected with the terminal-state error, and the answer stored for a
\* terminal question is never overwritten: the backend keeps it whatever
\* happens, and the rejected request leaves the client's question list and
\* index as they were.
C10_AnswerTerminal ==
  [][/\ \A s \in SessionIds : \A i \in 1..Len(server[s].questions) :
          SameTerminalQuestion(server[s].questions, server'[s].questions, i) =>
            server'[s].questions[i] = server[s].questions[i]
     /\ (ResubmitInFlight /\ proc'[AnswerP].reply # NoReply) =>
          /\ proc'[AnswerP].reply = ErrorResponse(AlreadyAnsweredDetail)
          /\ UNCHANGED server
     /\ (proc[AnswerP].reply = ErrorResponse(AlreadyAnsweredDetail)
           /\ proc'[AnswerP] # proc[AnswerP] /\ ~Reload) =>
          /\ error' \in {AlreadyAnsweredDetail, FetchFailedError}
          /\ UNCHANGED <<server, questions, currentQuestionIndex>>]_vars

\* A second submit was rejected with the terminal-state error; the backend
\* and the client's list hold the answer of the first.
C10_Witness ==
  /\ error = AlreadyAnsweredDetail
  /\ sessionId # NoSession
  /\ \E i \in 1..Len(questions) :
       /\ questions[i].answered
       /\ i <= Len(server[sessionId].questions)
       /\ server[sessionId].questions[i] = questions[i]

\* A submit or skip ends with the backend's acceptance: the response that
\* arrived is OK and the handler took its try branch (the catch branch sets
\* the error and leaves the index).
AnswerSucceeds ==
  LET c == proc[AnswerP] IN
  /\ c.pc = "awaitAnswer"
  /\ c.reply.type = "ok"
  /\ SrvLive(c.sid)
  /\ proc'[AnswerP].pc = "idle"
  /\ questions' = MarkAnswered(questions, c.n, c.text)
  /\ Len(questions) > 0
  /\ \/ error' # FetchFailedError
     \/ currentQuestionIndex' # currentQuestionIndex

\* C11: after a successful submit or skip the client's current question
\* index equals the number of terminal questions of the session.
C11_IndexIsTerminalCount ==
  [][AnswerSucceeds =>
       currentQuestionIndex' = Terminal(server'[proc[AnswerP].sid].questions)]_vars

\* The backend accepts the answer request in flight and stores its text.
AnswerStored ==
  /\ proc[AnswerP].pc = "awaitAnswer"
  /\ proc[AnswerP].reply = NoReply
  /\ proc'[AnswerP].reply.type = "ok"

\* C12: a skip is recorded as an answer of empty text and a submit carries
\* text that is non-empty after trimming: a request is sent with empty text
\* exactly when it is a skip, and the answer stored by the backend and the
\* one put in the client's question list is empty exactly when the question
\* was skipped.
C12_EmptyIffSkipped ==
  [][LET c == proc[AnswerP] IN
     /\ proc'[AnswerP].pc = "awaitAnswer" =>
          /\ proc'[AnswerP].skip <=> proc'[AnswerP].text = ""
          /\ ~proc'[AnswerP].skip => Trim(proc'[AnswerP].text) # ""
     /\ AnswerStored =>
          /\ server'[c.sid].questions[c.n].answered
          /\ server'[c.sid].questions[c.n].answer = "" <=> c.skip
     /\ AnswerSucceeds =>
          \A i \in 1..Len(questions') :
            questions'[i].id = c.n =>
              /\ questions'[i].answered
              /\ questions'[i].answer = "" <=> c.skip]_vars

\* The first question was skipped and the second answered; the backend and
\* the client's list hold an empty answer for the first only.
C12_Witness ==
  /\ sessionId # NoSession
  /\ Len(questions) = 2
  /\ questions = server[sessionId].questions
  /\ questions[1].answered /\ questions[1].answer = ""
  /\ questions[2].answered /\ questions[2].answer # ""

\* The question list is loaded and every question in it is terminal.
NoQuestionPending(qs) ==
  /\ Len(qs) > 0
  /\ \A i \in 1..Len(qs) : qs[i].answered

\* InterviewStep renders its completed view ("All questions answered").
CompletedViewShown ==
  /\ currentStep = InterviewStepNo
  /\ ~HasCurrentQuestion

\* onComplete runs: the wizard leaves the interview for the Download step.
InterviewCompletes ==
  /\ currentStep = InterviewStepNo
  /\ currentStep' = DownloadStep

\* C13: the completed view is shown, and onComplete moves the wizard to the
\* Download step, only when the question list is loaded and every question
\* in it has been answered or skipped.
C13_CompleteOnlyIfNonePending ==
  /\ [](CompletedViewShown => NoQuestionPending(questions))
  /\ [][InterviewCompletes => NoQuestionPending(questions')]_vars

\* handleGenerate ends in its catch block: generateCV was rejected by the
\* backend, failed on the way or was aborted by its timer, and the error is
\* shown.
GenerateFails ==
  /\ proc[GenerateP].pc = "awaitGenerate"
  /\ proc'[GenerateP].pc = "idle"
  /\ error' # NoError
  /\ proc[GenerateP].reply.type # "ok" \/ error' # error

\* C14: generation is all-or-nothing and retryable: no step of a
\* generation that fails or times out changes isGenerated, comparison,
\* questions or the step, and when it ends the Generate button is enabled
\* again.
C14_GenerateAllOrNothing ==
  [][/\ (proc'[GenerateP] # proc[GenerateP] /\ proc'[GenerateP].pc = "awaitGenerate") =>
          UNCHANGED <<isGenerated, comparison, questions, currentStep>>
     /\ GenerateFails =>
          /\ UNCHANGED <<isGenerated, comparison, questions, currentStep>>
          /\ ~isLoading'
          /\ proc'[GenerateP] = Idle]_vars

\* A generation timed out and the Generate button can be pressed again.
C14_Witness ==
  /\ error = GenerateTimeoutError
  /\ currentStep = DownloadStep
  /\ ~isGenerated
  /\ comparison = 0
  /\ ENABLED HandleGenerate

\* handleAnalyze ends (its finally block has run).
AnalyzeEnds ==
  /\ proc[AnalyzeP].pc # "idle"
  /\ proc'[AnalyzeP].pc = "idle"

\* The gap analysis and the question list the page holds come from the same
\* analysis (or the page holds neither).
GapMatchesQuestions(gap, qs) ==
  IF gap = NoGap THEN qs = <<>>
  ELSE /\ Len(qs) > 0
       /\ \A i \in 1..Len(qs) : qs[i].question = gap[2]

\* C15: an analysis either fully applies or leaves the state as it was:
\* when handleAnalyze ends, gapAnalysis and questions both come from the
\* same successful analysis or are both unchanged since the step before;
\* the gap is never the new one while the questions are stale.
C15_AnalysisAllOrNothing ==
  [][AnalyzeEnds =>
       \/ GapMatchesQuestions(gapAnalysis', questions')
       \/ /\ proc[AnalyzeP].pc # "awaitQuestions"
          /\ UNCHANGED <<gapAnalysis, questions>>]_vars

\* C16: every call that reaches the Reasoning Service carries a bounded
\* timeout: even if the backend never responds, a generation in flight
\* eventually ends with isLoading back to false, and an analysis call in
\* flight eventually ends (in success or in failure).
C16_ReasoningCallsEnd ==
  /\ (proc[GenerateP].pc = "awaitGenerate") ~>
       (proc[GenerateP].pc = "idle" /\ ~isLoading)
  /\ (proc[AnalyzeP].pc = "awaitAnalyze") ~> (proc[AnalyzeP].pc # "awaitAnalyze")

\* The part of C16 that the code keeps: a generation in flight ends.
GenerateCallEnds ==
  (proc[GenerateP].pc = "awaitGenerate") ~> (proc[GenerateP].pc = "idle" /\ ~isLoading)

\* The delete request of d succeeded and handleDelete reset the page.
DeleteSucceeds(d) ==
  /\ proc[d].pc = "awaitDelete"
  /\ proc'[d].pc = "awaitDelCreate"

\* C17: deletion leaves no residual fields: once the delete request has
\* succeeded, local storage no longer references the deleted id and the gap
\* analysis, the questions, the current question index, the generated
\* flag, the comparison and the step are back to their initial values.
C17_DeleteLeavesNothing ==
  [][\A d \in DeleteProcs :
       DeleteSucceeds(d) =>
         /\ localStorage'.sessionId # proc[d].sid
         /\ gapAnalysis' = NoGap
         /\ questions' = <<>>
         /\ currentQuestionIndex' = 0
         /\ ~isGenerated'
         /\ comparison' = 0
         /\ currentStep' = InitialStep]_vars

\* The response to a request of p made for a session that has since been
\* deleted reaches the page, which now holds the replacement session.
ArrivesAfterDelete(p) ==
  /\ proc[p].pc \in {"awaitGenerate", "awaitRestore"}
  /\ proc'[p].pc = "idle"
  /\ server[proc[p].sid].deleted
  /\ sessionId \notin {NoSession, proc[p].sid}

\* C18: a generation or background restore response that arrives after the
\* session was deleted does not resurrect state: it sets neither
\* isGenerated nor the comparison, gap analysis or questions of the deleted
\* session on the page that holds the replacement session.
C18_NoResurrection ==
  [][\A p \in {GenerateP, RestoreP} :
       ArrivesAfterDelete(p) =>
         /\ isGenerated' => isGenerated
         /\ comparison' \in {comparison, 0}
         /\ gapAnalysis' \in {gapAnalysis, NoGap}
         /\ questions' \in {questions, <<>>}]_vars

\* C19: for every non-OK response handleResponse throws an error whose
\* message is the server's detail verbatim when the body carries one and
\* the default message otherwise, a body that is not valid JSON included.
C19_DetailOrDefault ==
  [][\A p \in ApiCallers :
       (proc[p].pc = "awaitHttp" /\ proc'[p].pc = "idle"
          /\ proc[p].reply.type # "ok") =>
         error' = IF proc[p].reply.detail # "" THEN proc[p].reply.detail
                  ELSE DefaultErrorOf(p)]_vars

\* The part of C19 that the code keeps: the statement for the bodies that
\* are valid JSON.
JsonBodyDetailOrDefault ==
  [][\A p \in ApiCallers :
       (proc[p].pc = "awaitHttp" /\ proc'[p].pc = "idle"
          /\ proc[p].reply.type = "error") =>
         error' = IF proc[p].reply.detail # "" THEN proc[p].reply.detail
                  ELSE DefaultErrorOf(p)]_vars

\* A file the upload step accepts: a PDF of at most 10 MB.
IsSmallPdf(file) == file.type = PdfType /\ file.size <= 10 * 1024 * 1024

\* C20: only a PDF of at most 10 MB is ever uploaded: the selected file is
\* non-null only if it is such a file, a rejected file never replaces the
\* selected file, and onUpload is called only with the selected file.
C20_OnlySmallPdfUploaded ==
  /\ [](proc[UploadStepC].file # NoFile => IsSmallPdf(proc[UploadStepC].file))
  /\ [](proc[UploadP].file # NoFile => IsSmallPdf(proc[UploadP].file))
  /\ [][/\ proc'[UploadStepC].fileError \in {NotPdfError, TooLargeError} =>
            proc'[UploadStepC].file = proc[UploadStepC].file
        /\ proc'[UploadP].file # proc[UploadP].file =>
            proc'[UploadP].file = proc[UploadStepC].file]_vars

\* A PDF of exactly 10 MB is selected and was handed to onUpload, after a
\* larger one was rejected.
C20_Witness ==
  /\ proc[UploadStepC].file = [type |-> PdfType, size |-> MaxFileSize]
  /\ proc[UploadStepC].fileError = TooLargeError
  /\ proc[UploadP].file = proc[UploadStepC].file

\* The page shown is not blank: the Analysis step has its gap analysis and
\* the Interview step a question to show.
NoBlankPage ==
  /\ currentStep = AnalysisStep => gapAnalysis # NoGap
  /\ currentStep = InterviewStepNo => Len(questions) > 0

\* The steps the background restore in flight can settle on: the clamped
\* saved step when its response arrived OK, min(saved step, 1) when the
\* fetch failed.
SettledSteps ==
  LET c == proc[RestoreP] IN
  {Min(c.step, JobDetailsStep)}
    \cup (IF c.reply.type = "ok" THEN {RestoredStep(c.step, c.data)} ELSE {})

NoBlankPageOnceSettled == proc[RestoreP].pc = "idle" => NoBlankPage

CreateFails(p) ==
  /\ proc[p].pc = "awaitCreate"
  /\ proc'[p].pc # "awaitCreate"
  /\ sessionId' = NoSession

\* C22: within one bootstrap attempt the backoff waits lie between the
\* create-session attempts: a wait of 600 ms x k follows the k-th failed
\* attempt and precedes attempt k+1, and once the third attempt has failed
\* the last error is propagated without a further wait.
C22_BackoffBetweenAttempts ==
  [][\A p \in Callers :
       LET k == proc[p].attempt + 1 IN
       /\ CreateFails(p) =>
            IF k < MaxAttempts
            THEN /\ proc'[p].pc = "backoff"
                 /\ proc'[p].delay = BackoffUnitMs * k
            ELSE /\ proc'[p].pc = "done"
                 /\ proc'[p].res = "err"
                 /\ proc'[p].lastErr = proc'[p].errs[MaxAttempts]
       /\ (proc[p].pc = "backoff" /\ proc'[p].pc = "awaitCreate") =>
            /\ proc'[p].attempt = k
            /\ proc[p].delay = BackoffUnitMs * k]_vars

\* The part of C22 that the code keeps: every retry is preceded by the wait
\* of its attempt number, and every failure is followed by a wait of
\* 600 ms x k.
BackoffPrecedesRetry ==
  [][\A p \in Callers :
       LET k == proc[p].attempt + 1 IN
       /\ CreateFails(p) =>
            /\ proc'[p].pc = "backoff"
            /\ proc'[p].delay = BackoffUnitMs * k
       /\ (proc[p].pc = "backoff" /\ proc'[p].pc = "awaitCreate") =>
            /\ proc'[p].attempt = k
            /\ k < MaxAttempts
            /\ proc[p].delay = BackoffUnitMs * k]_vars

\* handleSubmitText / handleSkip end in their try branch: the question is
\* marked, the index set and no error reported.
AnswerEndsInSuccess ==
  LET c == proc[AnswerP] IN
  /\ c.pc = "awaitAnswer"
  /\ proc'[AnswerP].pc = "idle"
  /\ c.reply.type = "ok"
  /\ questions' = MarkAnswered(questions, c.n, c.text)
  /\ currentQuestionIndex' = IF c.skip THEN currentQuestionIndex + 1 ELSE c.count
  /\ error' = error

\* The step moves forward by one because the operation of the step it
\* leaves succeeded: the upload, the analysis with its questions, the Start
\* button of the gap analysis view, the answer or skip of the last question
\* or the button of the completed view.
ForwardBySuccess ==
  \/ /\ currentStep = InitialStep /\ currentStep' = JobDetailsStep
     /\ proc[UploadP].pc \in {"awaitUpload", "awaitUpload2"}
     /\ proc'[UploadP].pc = "idle"
     /\ server'[proc[UploadP].sid].cv
  \/ /\ currentStep = JobDetailsStep /\ currentStep' = AnalysisStep
     /\ proc[AnalyzeP].pc = "awaitQuestions"
     /\ proc'[AnalyzeP].pc = "idle"
     /\ questions' = server[proc[AnalyzeP].sid].questions
  \/ /\ currentStep = AnalysisStep /\ currentStep' = InterviewStepNo
     /\ HandleStartInterview
  \/ /\ currentStep = InterviewStepNo /\ currentStep' = DownloadStep
     /\ \/ CompletedViewContinue
        \/ AnswerEndsInSuccess /\ proc[AnswerP].last

\* C23: apart from the restore at page load and delete, the wizard step
\* changes only by forward single-step transitions 0 -> 1 -> 2 -> 3 -> 4,
\* each caused by the success of the matching operation; no handler
\* completion moves the step backward or skips a step.
C23_ForwardSingleSteps ==
  [][(currentStep' # currentStep
        /\ ~Reload /\ ~RestoreResponse
        /\ ~(\E d \in DeleteProcs : DeleteSucceeds(d)))
       => ForwardBySuccess]_vars

\* The user has acted since the page load that started the restore in
\* flight: the step is no longer the saved one, or the page holds a gap
\* analysis, questions or an index that the load had reset.
ProgressSinceLoad ==
  /\ proc[RestoreP].pc = "awaitRestore"
  /\ \/ currentStep # proc[RestoreP].step
     \/ gapAnalysis # NoGap
     \/ questions # <<>>
     \/ currentQuestionIndex # 0

\* C24: a background restore response that arrives after the user has
\* already acted does not undo that progress: it never moves the wizard
\* step backward and never replaces a gap analysis, question list or
\* question index that a newer user operation has set.
C24_RestoreKeepsProgress ==
  [][(ProgressSinceLoad /\ RestoreResponse) =>
       /\ currentStep' >= currentStep
       /\ gapAnalysis # NoGap => gapAnalysis' = gapAnalysis
       /\ questions # <<>> => questions' = questions
       /\ currentQuestionIndex # 0 => currentQuestionIndex' = currentQuestionIndex]_vars

\* The submit or skip request in flight fails: it ends while no acceptance
\* of the backend has arrived for it (it was rejected or lost on the way).
AnswerFails ==
  /\ proc[AnswerP].pc = "awaitAnswer"
  /\ proc[AnswerP].reply.type # "ok"
  /\ proc'[AnswerP].pc = "idle"
  /\ ~Reload

\* C25: when a submit or skip request fails, the interview does not
\* advance: the current question index, the question list and the wizard
\* step are unchanged, for every question including the last one.
C25_FailedAnswerDoesNotAdvance ==
  [][AnswerFails => UNCHANGED <<currentQuestionIndex, questions, currentStep>>]_vars

\* The part of C25 that the code keeps: a failed submit or skip leaves the
\* index and the question list, and leaves the step unless the question
\* was the last one.
FailedAnswerKeepsQuestions ==
  [][AnswerFails =>
       /\ UNCHANGED <<currentQuestionIndex, questions>>
       /\ ~proc[AnswerP].last => UNCHANGED currentStep]_vars

\* handleAnalyze has reported the expiry and the page sits on the Job
\* Details step with no request of an earlier action still pending.
ExpiredOnJobDetails ==
  /\ error = SessionExpiredError
  /\ currentStep = JobDetailsStep
  /\ \A p \in Handlers : proc[p].pc = "idle"

\* C26: after handleAnalyze reports "Session expired. Please re-upload your
\* CV.", the upload step (step 0) is reachable through user actions on the
\* page or a reload: a user who keeps using the page gets there.
C26_UploadStepReachable ==
  (error = SessionExpiredError) ~> (currentStep = InitialStep)

\* What the code does instead: once the expiry is reported on the Job
\* Details step, the wizard stays on that step whatever the user does.
StuckOnJobDetails ==
  [](ExpiredOnJobDetails => [](currentStep = JobDetailsStep))

\* The handlers that show the spinner: upload, analyze, answer / skip and
\* generate.
LoadingHandlers == {UploadP, AnalyzeP, AnswerP, GenerateP}

\* A request started by one of them is unfinished.
RequestUnfinished == \E p \in LoadingHandlers : proc[p].pc # "idle"

\* C27: isLoading is true exactly while an upload, analyze, answer, skip or
\* generate request started by the page is unfinished: every handler that
\* sets it resets it on success and on failure, and it is never false while
\* such a request is still in flight.
C27_LoadingIffRequestUnfinished == isLoading <=> RequestUnfinished

\* A submit failed on the last but one question: the spinner is off, the
\* error is shown and the Submit button can be pressed again.
C27_Witness ==
  /\ ~isLoading
  /\ error = FetchFailedError
  /\ currentStep = InterviewStepNo
  /\ proc[AnswerP].pc = "idle"
  /\ ENABLED HandleTextSubmit

\* C28: whenever the wizard is past the upload step (currentStep >= 1) a
\* session id is held, so the answer, skip, generate and delete handlers,
\* which return silently when no id is held, never drop a user action.
C28_SessionHeldPastUpload == currentStep >= JobDetailsStep => sessionId # NoSession

\* The attempt that p started is running: it awaits create-session or
\* sleeps before the next call.
AttemptRunning(p) == proc[p].pc \in {"awaitCreate", "backoff"}

\* A bootstrap attempt has failed: a caller was rejected with its error.
BootstrapFailed == \E q \in Callers : proc[q].pc = "done" /\ proc[q].res = "err"

\* C29: the in-flight bootstrap slot is held only while an attempt is
\* running: once the attempt settles, with an id or with an error, the slot
\* is cleared, so a call made after a failed bootstrap starts a fresh
\* attempt (or joins one that is running, or returns the id a later
\* attempt got) instead of receiving the old failure.
C29_SlotHeldOnlyWhileRunning ==
  /\ [](\A p \in Procs : sessionInitPromiseRef = p <=> AttemptRunning(p))
  /\ [][\A c \in Callers :
          (BootstrapFailed /\ CallerCall(c)) =>
            \/ /\ proc'[c].pc = "awaitCreate"
               /\ proc'[c].attempt = 0
               /\ proc'[c].errs = <<>>
               /\ sessionInitPromiseRef = NoProc
               /\ sessionInitPromiseRef' = c
            \/ /\ proc'[c].pc = "awaitInit"
               /\ AttemptRunning(sessionInitPromiseRef)
            \/ /\ proc'[c].pc = "done"
               /\ proc'[c].res = "ok"
               /\ proc'[c].sid \in {sessionId, SavedId} \ {NoSession}]_vars

\* An attempt failed after three calls, and a later caller's attempt is
\* running with a call of its own.
C29_Witness ==
  \E p, q \in Callers :
    /\ p # q
    /\ proc[p].pc = "done" /\ proc[p].res = "err" /\ Len(proc[p].errs) = MaxAttempts
    /\ sessionInitPromiseRef = q
    /\ proc[q].pc = "awaitCreate"
    /\ proc[q].creates = 1

\* C30: whenever a session id is held (and the save-session effect of the
\* last render has run), local storage holds exactly that session id
\* together with the current wizard step, so a reload restores the same
\* session id and, until the restore clamps it, the same step.
C30_StorageMirrorsSession ==
  /\ [](sessionId # NoSession =>
          localStorage = [sessionId |-> sessionId, step |-> currentStep])
  /\ [][(sessionId # NoSession /\ Reload) =>
          /\ UNCHANGED <<sessionId, currentStep, localStorage>>
          /\ proc'[RestoreP].pc = "awaitRestore"
          /\ proc'[RestoreP].sid = sessionId
          /\ proc'[RestoreP].step = currentStep]_vars

\* The page was reloaded on the Interview step: the load took the session
\* id and the step from local storage, which still holds them, and the
\* background restore is on its way for that id and step.
C30_Witness ==
  /\ sessionId # NoSession
  /\ currentStep = InterviewStepNo
  /\ localStorage = [sessionId |-> sessionId, step |-> InterviewStepNo]
  /\ proc[RestoreP].pc = "awaitRestore"
  /\ proc[RestoreP].sid = sessionId
  /\ proc[RestoreP].step = InterviewStepNo
  /\ questions = <<>>

====
